---- MODULE Spec2Model ----
(***************************************************************************)
(* Model of the transcript service (app.py): the two transcript routes,    *)
(* the health route, the error classification helpers and the retry loop   *)
(* get_transcript_with_retry.  The transcript provider                     *)
(* (youtube_transcript_api) is an external library: each call to it        *)
(* nondeterministically returns data or raises one of the exceptions the   *)
(* service imports, with an arbitrary message.                             *)
(***************************************************************************)
EXTENDS Integers, Sequences, FiniteSets, TLC

\* ------------------------------------------------------------------ bounds
MaxMsgLen == 2          \* words in an exception message
MaxSegs == 3            \* segments in a transcript
MaxParamLen == 3        \* pieces in the languages query parameter
MaxMaxRetries == 3      \* largest max_retries a caller passes
JitterSteps == 1        \* the jitter interval [0,1] is sampled at k/JitterSteps

\* ------------------------------------------------------- program constants
DefaultMaxRetries == 3

\* --------------------------------------------------------------- the data
VideoIds == {"v1", "v2"}

\* A Python str is a sequence of pieces; each piece stands for a run of
\* characters without a comma, except the piece "," which is one comma.
Pieces == {"en", "fr", ","}

RECURSIVE SeqsUpTo(_, _)
SeqsUpTo(S, n) ==
    IF n = 0 THEN {<<>>}
    ELSE LET shorter == SeqsUpTo(S, n - 1)
         IN  shorter \cup {Append(s, x) : s \in {t \in shorter : Len(t) = n - 1}, x \in S}

\* The languages query parameter: absent (the empty tuple of values) or one str.
QueryParams == {<<>>} \cup {<<s>> : s \in SeqsUpTo(Pieces, MaxParamLen)}

Segments ==
    { [text |-> "a", start |-> 0, duration |-> 1],
      [text |-> "b", start |-> 1, duration |-> 1],
      [text |-> "c", start |-> 2, duration |-> 1] }

Transcripts == SeqsUpTo(Segments, MaxSegs)

\* The words an exception message is made of: indicators in several letter
\* cases and a neutral word.
Words == {"rate limit", "RATE LIMIT", "timeout", "video"}

Messages == SeqsUpTo(Words, MaxMsgLen)

\* Exception classes the provider call can raise (app.py imports them);
\* "Exception" is any other exception class.
BusinessTypes == {"TranscriptsDisabled", "NoTranscriptFound",
                  "NoTranscriptAvailable", "VideoUnavailable"}
NetworkTypes == {"Timeout", "ConnectionError"}
ExcTypes == BusinessTypes \cup NetworkTypes
            \cup {"YouTubeRequestFailed", "TooManyRequests", "Exception"}

Exc(t, m) == [type |-> t, msg |-> m]
Exceptions == {Exc(t, m) : t \in ExcTypes, m \in Messages}

\* ----------------------------------------------------- str.lower(), `in`
LowerWord(w) ==
    CASE w = "RATE LIMIT" -> "rate limit"
      [] OTHER -> w

Lower(s) == [i \in 1..Len(s) |-> LowerWord(s[i])]

Contains(s, indicator) == \E i \in 1..Len(s) : s[i] = indicator

\* ------------------------------------------------------- classification
rate_limit_indicators ==
    {"too many requests", "rate limit", "quota exceeded", "429",
     "try again later", "temporarily unavailable"}

transient_indicators ==
    {"timeout", "connection", "network", "temporary",
     "service unavailable", "503", "502", "504"}

is_rate_limit_error_cased(e) ==
    \E indicator \in rate_limit_indicators : Contains(e.msg, indicator)

is_rate_limit_error(e) ==
    LET error_message == Lower(e.msg)
    IN  \E indicator \in rate_limit_indicators : Contains(error_message, indicator)

is_transient_error(e) ==
    IF e.type \in NetworkTypes THEN TRUE
    ELSE LET error_message == Lower(e.msg)
         IN  \E indicator \in transient_indicators : Contains(error_message, indicator)

\* ------------------------------------------------- create_error_response
\* Optional arguments are passed as a tuple: <<>> is None, <<x>> is x.
create_error_response(error_message, error_code, status_code, vid, is_retryable, retry_after) ==
    LET base == [error |-> error_message, error_code |-> error_code, video_id |-> vid]
        withRetryable == IF is_retryable # <<>>
                         THEN base @@ [is_retryable |-> is_retryable[1]]
                         ELSE base
        response == IF retry_after # <<>>
                    THEN withRetryable @@ [retry_after |-> retry_after[1]]
                    ELSE withRetryable
    IN  [kind |-> "json", status |-> status_code, body |-> response]

\* An exception that leaves the route handler: Flask answers with its own
\* error page, not with a JSON body of the service.
Unhandled(excType) == [kind |-> "unhandled", status |-> 500, exc |-> excType]

\* ------------------------------------------------------------- str.split
HasComma(s) == \E i \in 1..Len(s) : s[i] = ","

FirstComma(s) == CHOOSE i \in 1..Len(s) : s[i] = "," /\ \A j \in 1..(i - 1) : s[j] # ","

RECURSIVE Split(_)
Split(s) ==
    IF ~HasComma(s) THEN <<s>>
    ELSE LET i == FirstComma(s)
         IN  <<SubSeq(s, 1, i - 1)>> \o Split(SubSeq(s, i + 1, Len(s)))

\* request.args.get('languages', 'en')
languages_default == <<"en">>

args_get_languages(param) == IF param = <<>> THEN languages_default ELSE param[1]

\* request.args.get('languages', 'en').split(',')
parse_languages_first_only(param) == <<Split(args_get_languages(param))[1]>>

parse_languages(param) == Split(args_get_languages(param))

\* --------------------------------------------------- the provider's calls
\* One call of the provider either returns its data or raises; in the
\* transcript route the call is list_transcripts / find_transcript / fetch
\* and `stage` says which of the three raised.
Stages == 1..3

Tag(outcome) == IF outcome.ok THEN "ok" ELSE outcome.exc.type

FetchOutcomes ==
    {[ok |-> TRUE, data |-> t] : t \in Transcripts}
    \cup {[ok |-> FALSE, exc |-> e, stage |-> s] : e \in Exceptions, s \in Stages}

Tracks ==
    { [language |-> "English", language_code |-> "en",
       is_generated |-> FALSE, is_translatable |-> TRUE],
      [language |-> "French (auto-generated)", language_code |-> "fr",
       is_generated |-> TRUE, is_translatable |-> FALSE] }

MaxTracks == 2

TrackLists == SeqsUpTo(Tracks, MaxTracks)

ListOutcomes ==
    {[ok |-> TRUE, data |-> t] : t \in TrackLists}
    \cup {[ok |-> FALSE, exc |-> e, stage |-> 1] : e \in Exceptions}

\* The retry loop looks at the class of the exception only, and returns the
\* provider's data untouched.
RetryMessages == SeqsUpTo({"timeout"}, 1)

RetryTranscripts == SeqsUpTo(Segments, 1)

RetryOutcomes ==
    {[ok |-> TRUE, data |-> t] : t \in RetryTranscripts}
    \cup {[ok |-> FALSE, exc |-> Exc(t, m), stage |-> 1] : t \in ExcTypes, m \in RetryMessages}

\* ------------------------------------------------- GET /transcript/<id>
segment_count_off_by_one(transcript) == IF Len(transcript) = 0 THEN 0 ELSE Len(transcript) - 1

segment_count(transcript) == Len(transcript)

get_transcript_success(vid, transcript) ==
    [kind |-> "json", status |-> 200,
     body |-> [video_id |-> vid, transcript |-> transcript,
               segment_count |-> segment_count(transcript)]]

transcripts_disabled_retryable(vid) ==
    create_error_response("Transcripts are disabled for this video",
                          "TRANSCRIPTS_DISABLED", 404, vid, <<TRUE>>, <<>>)

transcripts_disabled_response(vid) ==
    create_error_response("Transcripts are disabled for this video",
                          "TRANSCRIPTS_DISABLED", 404, vid, <<FALSE>>, <<>>)

\* The except clauses of get_transcript, tried in source order.
get_transcript_except(e, vid) ==
    IF e.type = "TranscriptsDisabled" THEN
        transcripts_disabled_response(vid)
    ELSE IF e.type = "NoTranscriptFound" THEN
        create_error_response("No transcript available in requested languages",
                              "NO_TRANSCRIPT_FOUND", 404, vid, <<FALSE>>, <<>>)
    ELSE IF e.type = "NoTranscriptAvailable" THEN
        create_error_response("No transcript available for this video",
                              "NO_TRANSCRIPT_AVAILABLE", 404, vid, <<FALSE>>, <<>>)
    ELSE IF e.type = "VideoUnavailable" THEN
        create_error_response("Video is unavailable or does not exist",
                              "VIDEO_UNAVAILABLE", 404, vid, <<FALSE>>, <<>>)
    ELSE IF e.type = "YouTubeRequestFailed" THEN
        IF is_rate_limit_error(e) THEN
            create_error_response("YouTube rate limit exceeded. Please try again later.",
                                  "RATE_LIMIT_EXCEEDED", 429, vid, <<FALSE>>, <<60>>)
        ELSE
            create_error_response("YouTube API temporarily unavailable",
                                  "YOUTUBE_API_ERROR", 503, vid, <<TRUE>>, <<30>>)
    ELSE IF e.type \in NetworkTypes THEN
        create_error_response("Network timeout or connection error",
                              "NETWORK_ERROR", 503, vid, <<TRUE>>, <<15>>)
    ELSE IF is_transient_error(e) THEN
        create_error_response("Service temporarily unavailable",
                              "TRANSIENT_ERROR", 503, vid, <<TRUE>>, <<30>>)
    ELSE
        create_error_response("Internal server error",
                              "INTERNAL_ERROR", 500, vid, <<TRUE>>, <<>>)

\* -------------------------------------------- GET /transcript/list/<id>
\* Names bound in the module's globals when an except clause is evaluated.
\* VideoRegionBlocked is neither imported nor defined in app.py.
ModuleGlobals ==
    ExcTypes \cup {"NotTranslatable", "TranslationLanguageNotAvailable",
                   "CookiePathInvalid", "CookiesInvalid"}

available_tracks(transcript_list) ==
    [i \in 1..Len(transcript_list) |->
        [language |-> transcript_list[i].language,
         language_code |-> transcript_list[i].language_code,
         is_generated |-> transcript_list[i].is_generated,
         is_translatable |-> transcript_list[i].is_translatable]]

list_transcripts_success(vid, transcript_list) ==
    [kind |-> "json", status |-> 200,
     body |-> [video_id |-> vid,
               available_transcripts |-> available_tracks(transcript_list)]]

\* The except clauses of list_transcripts, tried in source order.  Matching
\* `except VideoRegionBlocked:` evaluates the name, which raises NameError
\* out of the handler when the name is unbound.
list_transcripts_except(e, vid) ==
    IF e.type = "TranscriptsDisabled" THEN
        create_error_response("Transcripts are disabled for this video",
                              "TRANSCRIPTS_DISABLED", 404, vid, <<FALSE>>, <<>>)
    ELSE IF e.type = "NoTranscriptFound" THEN
        create_error_response("No transcript available for this video",
                              "NO_TRANSCRIPT_FOUND", 404, vid, <<FALSE>>, <<>>)
    ELSE IF e.type = "NoTranscriptAvailable" THEN
        create_error_response("No transcript available for this video",
                              "NO_TRANSCRIPT_AVAILABLE", 404, vid, <<FALSE>>, <<>>)
    ELSE IF e.type = "VideoUnavailable" THEN
        create_error_response("Video is unavailable or does not exist",
                              "VIDEO_UNAVAILABLE", 404, vid, <<FALSE>>, <<>>)
    ELSE IF "VideoRegionBlocked" \notin ModuleGlobals THEN
        Unhandled("NameError")
    ELSE IF e.type = "VideoRegionBlocked" THEN
        create_error_response("Video is blocked in your region",
                              "VIDEO_REGION_BLOCKED", 404, vid, <<FALSE>>, <<>>)
    ELSE IF e.type = "YouTubeRequestFailed" THEN
        IF is_rate_limit_error(e) THEN
            create_error_response("YouTube rate limit exceeded. Please try again later.",
                                  "RATE_LIMIT_EXCEEDED", 429, vid, <<FALSE>>, <<60>>)
        ELSE
            create_error_response("YouTube API temporarily unavailable",
                                  "YOUTUBE_API_ERROR", 503, vid, <<TRUE>>, <<30>>)
    ELSE IF e.type \in NetworkTypes THEN
        create_error_response("Network timeout or connection error",
                              "NETWORK_ERROR", 503, vid, <<TRUE>>, <<15>>)
    ELSE IF is_transient_error(e) THEN
        create_error_response("Service temporarily unavailable",
                              "TRANSIENT_ERROR", 503, vid, <<TRUE>>, <<30>>)
    ELSE
        create_error_response("Internal server error",
                              "INTERNAL_ERROR", 500, vid, <<TRUE>>, <<>>)

\* ------------------------------------------- get_transcript_with_retry
RECURSIVE Pow2(_)
Pow2(n) == IF n = 0 THEN 1 ELSE 2 * Pow2(n - 1)

\* random.uniform(0, 1), in units of 1/JitterSteps second
Jitters == 0..JitterSteps

\* delay = (2 ** attempt) + random.uniform(0, 1), in the same units
backoff_delay_linear(attempt, jitter) == (2 * attempt + 2) * JitterSteps + jitter

backoff_delay(attempt, jitter) == Pow2(attempt) * JitterSteps + jitter

\* if attempt == max_retries - 1
is_last_attempt_off_by_one(a, mr) == a = mr

is_last_attempt(a, mr) == a = mr - 1

\* range(max_retries) yields a value after a
range_has_next(a, mr) == a + 1 < mr

\* isinstance(e, (TranscriptsDisabled, NoTranscriptFound, VideoUnavailable))
dont_retry(e) == e.type \in {"TranscriptsDisabled", "NoTranscriptFound", "VideoUnavailable"}

\* ------------------------------------------------------------- the state
VARIABLES
    pc,              \* "idle", "retrying" (inside the retry loop) or "done"
    op,              \* the operation running or last run
    video_id,        \* its video_id argument
    languages_param, \* the languages query parameter of the request
    passed,          \* <<languages>> once a languages list reached the provider
    max_retries,     \* argument of get_transcript_with_retry
    attempt,         \* its loop variable
    calls,           \* outcome tag of every provider call of the operation
    waits,           \* every time.sleep(delay) of the operation
    lastOutcome,     \* what the last provider call returned or raised
    result           \* HTTP response of a route / return or raise of the loop

vars == <<pc, op, video_id, languages_param, passed, max_retries, attempt,
          calls, waits, lastOutcome, result>>

NoOutcome == [ok |-> FALSE, exc |-> Exc("none", <<>>), stage |-> 0]

Init ==
    /\ pc = "idle"
    /\ op = "none"
    /\ video_id = "v1"
    /\ languages_param = <<>>
    /\ passed = <<>>
    /\ max_retries = DefaultMaxRetries
    /\ attempt = 0
    /\ calls = <<>>
    /\ waits = <<>>
    /\ lastOutcome = NoOutcome
    /\ result = [kind |-> "none"]

\* The service handles each request independently and keeps nothing between
\* requests; the model runs one operation at a time, each from the same
\* initial state.
Ready == pc = "idle"

\* The response has been delivered; nothing of the request is retained.
Finish ==
    /\ pc = "done"
    /\ pc' = "idle"
    /\ op' = "none"
    /\ video_id' = "v1"
    /\ languages_param' = <<>>
    /\ passed' = <<>>
    /\ max_retries' = DefaultMaxRetries
    /\ attempt' = 0
    /\ calls' = <<>>
    /\ waits' = <<>>
    /\ lastOutcome' = NoOutcome
    /\ result' = [kind |-> "none"]

\* @app.route('/health')
HealthCheck ==
    /\ Ready
    /\ pc' = "done"
    /\ op' = "health_check"
    /\ result' = [kind |-> "json", status |-> 200,
                  body |-> [status |-> "healthy", service |-> "transcript-service"]]
    /\ passed' = <<>>
    /\ calls' = <<>>
    /\ waits' = <<>>
    /\ lastOutcome' = NoOutcome
    /\ languages_param' = <<>>
    /\ UNCHANGED <<video_id, max_retries, attempt>>

\* @app.route('/transcript/<video_id>')
GetTranscript(vid, param, outcome) ==
    /\ Ready
    /\ pc' = "done"
    /\ op' = "get_transcript"
    /\ video_id' = vid
    /\ languages_param' = param
    /\ LET languages == parse_languages(param)
       IN  passed' = IF outcome.ok \/ outcome.stage >= 2 THEN <<languages>> ELSE <<>>
    /\ calls' = <<Tag(outcome)>>
    /\ waits' = <<>>
    /\ lastOutcome' = outcome
    /\ result' = IF outcome.ok THEN get_transcript_success(vid, outcome.data)
                 ELSE get_transcript_except(outcome.exc, vid)
    /\ attempt' = 0
    /\ UNCHANGED max_retries

\* @app.route('/transcript/list/<video_id>')
ListTranscripts(vid, outcome) ==
    /\ Ready
    /\ pc' = "done"
    /\ op' = "list_transcripts"
    /\ video_id' = vid
    /\ languages_param' = <<>>
    /\ passed' = <<>>
    /\ calls' = <<Tag(outcome)>>
    /\ waits' = <<>>
    /\ lastOutcome' = outcome
    /\ result' = IF outcome.ok THEN list_transcripts_success(vid, outcome.data)
                 ELSE list_transcripts_except(outcome.exc, vid)
    /\ attempt' = 0
    /\ UNCHANGED max_retries

\* A call get_transcript_with_retry(vid, languages, mr): entering the loop.
\* range(max_retries) is empty for mr <= 0 and the function falls off its
\* end, returning None.
RetryLanguages == {<<<<"en">>, <<"fr">>>>}

MaxRetriesArgs == (0 - 1)..MaxMaxRetries

RetryEnter(vid, languages, mr) ==
    /\ Ready
    /\ op' = "get_transcript_with_retry"
    /\ video_id' = vid
    /\ languages_param' = <<>>
    /\ passed' = <<languages>>
    /\ max_retries' = mr
    /\ attempt' = 0
    /\ calls' = <<>>
    /\ waits' = <<>>
    /\ lastOutcome' = NoOutcome
    /\ IF mr <= 0
       THEN pc' = "done" /\ result' = [kind |-> "return", value |-> <<>>]
       ELSE pc' = "retrying" /\ result' = [kind |-> "none"]

\* One iteration of `for attempt in range(max_retries)`.
RetryAttempt(outcome, jitter) ==
    /\ pc = "retrying"
    /\ waits' = IF attempt > 0 THEN Append(waits, backoff_delay(attempt, jitter)) ELSE waits
    /\ calls' = Append(calls, Tag(outcome))
    /\ lastOutcome' = outcome
    /\ IF outcome.ok THEN
          /\ pc' = "done"
          /\ result' = [kind |-> "return", value |-> <<outcome.data>>]
          /\ UNCHANGED attempt
       ELSE IF is_last_attempt(attempt, max_retries) \/ dont_retry(outcome.exc) THEN
          /\ pc' = "done"
          /\ result' = [kind |-> "raise", exc |-> outcome.exc]
          /\ UNCHANGED attempt
       ELSE IF range_has_next(attempt, max_retries) THEN
          /\ attempt' = attempt + 1
          /\ UNCHANGED <<pc, result>>
       ELSE
          \* the for loop is exhausted: the function falls off its end
          /\ pc' = "done"
          /\ result' = [kind |-> "return", value |-> <<>>]
          /\ UNCHANGED attempt
    /\ UNCHANGED <<op, video_id, languages_param, passed, max_retries>>

\* The guard of an operation is tested before its inputs are drawn.
get_transcript ==
    /\ Ready
    /\ \E vid \in VideoIds, param \in QueryParams, outcome \in FetchOutcomes :
          GetTranscript(vid, param, outcome)

list_transcripts ==
    /\ Ready
    /\ \E vid \in VideoIds, outcome \in ListOutcomes : ListTranscripts(vid, outcome)

get_transcript_with_retry ==
    \/ /\ Ready
       /\ \E vid \in VideoIds, languages \in RetryLanguages, mr \in MaxRetriesArgs :
             RetryEnter(vid, languages, mr)
    \/ /\ pc = "retrying"
       /\ \E outcome \in RetryOutcomes, jitter \in Jitters : RetryAttempt(outcome, jitter)

Next ==
    \/ HealthCheck
    \/ get_transcript
    \/ list_transcripts
    \/ get_transcript_with_retry
    \/ Finish

Spec == Init /\ [][Next]_vars

\* An iteration of the retry loop that has begun runs to its end: the
\* provider call returns or raises and time.sleep(delay) returns.
RetryLoopStep == pc = "retrying" /\ get_transcript_with_retry

\* get_transcript_with_retry on its own, called directly.
RetryNext == get_transcript_with_retry \/ Finish

RetrySpec == Init /\ [][RetryNext]_vars /\ WF_vars(RetryLoopStep)

\* ================================================================ claims
Done(o) == pc = "done" /\ op = o

Failed == ~lastOutcome.ok /\ lastOutcome.stage > 0

RouteFailed(o) == Done(o) /\ Failed

Body(field) == IF field \in DOMAIN result.body THEN <<result.body[field]>> ELSE <<>>

\* C1: a GET /transcript/{video_id} request whose every provider call fails
\* with a network timeout / connection failure calls the provider exactly 3
\* times and answers 503 with is_retryable = true.
C1_ThreeAttemptsThen503 ==
    (Done("get_transcript") /\ \A i \in 1..Len(calls) : calls[i] \in NetworkTypes)
    => /\ Len(calls) = DefaultMaxRetries
       /\ result.kind = "json"
       /\ result.status = 503
       /\ Body("is_retryable") = <<TRUE>>

\* C2: when the provider reports transcripts disabled, GET
\* /transcript/{video_id} answers 404 TRANSCRIPTS_DISABLED with
\* is_retryable = false, and the provider is not called again after that
\* failure (by the route, or by the retry loop).
C2_TranscriptsDisabledNoRetry ==
    /\ (Done("get_transcript") /\ calls[1] = "TranscriptsDisabled")
       => /\ result.kind = "json"
          /\ result.status = 404
          /\ Body("error_code") = <<"TRANSCRIPTS_DISABLED">>
          /\ Body("is_retryable") = <<FALSE>>
          /\ Len(calls) = 1
          /\ waits = <<>>
    /\ op = "get_transcript_with_retry"
       => \A i \in 1..Len(calls) :
             calls[i] = "TranscriptsDisabled"
             => i = Len(calls) /\ pc = "done" /\ result.kind = "raise"

C2_Witness ==
    /\ Done("get_transcript")
    /\ calls = <<"TranscriptsDisabled">>
    /\ ~lastOutcome.ok
    /\ lastOutcome.exc.msg = <<"timeout", "rate limit">>
    /\ result.status = 404

\* C3: whenever the provider fails with a message containing "rate limit"
\* (any letter case), whatever the type of the failure, the response of
\* either transcript route is 429 RATE_LIMIT_EXCEEDED with retry_after = 60.
C3_RateLimitMessageIs429 ==
    (/\ pc = "done"
     /\ op \in {"get_transcript", "list_transcripts"}
     /\ Failed
     /\ \E i \in 1..Len(lastOutcome.exc.msg) :
           LowerWord(lastOutcome.exc.msg[i]) = "rate limit")
    => /\ result.kind = "json"
       /\ result.status = 429
       /\ Body("error_code") = <<"RATE_LIMIT_EXCEEDED">>
       /\ Body("retry_after") = <<60>>

\* C4: in the fetch with retry, when the first provider call fails with a
\* transient network failure and the second succeeds, the fetch returns the
\* second call's transcript after exactly two calls and exactly one wait of
\* 2^1 seconds plus a jitter in [0,1]; no wait precedes the first call.
C4_SecondAttemptSucceeds ==
    op = "get_transcript_with_retry"
    => /\ Len(calls) = 1 => waits = <<>>
       /\ (Len(calls) >= 2 /\ calls[1] \in NetworkTypes /\ calls[2] = "ok")
          => /\ pc = "done"
             /\ result = [kind |-> "return", value |-> <<lastOutcome.data>>]
             /\ Len(calls) = 2
             /\ Len(waits) = 1
             /\ waits[1] >= 2 * JitterSteps
             /\ waits[1] <= 2 * JitterSteps + JitterSteps

C4_Witness ==
    /\ Done("get_transcript_with_retry")
    /\ max_retries = DefaultMaxRetries
    /\ calls = <<"Timeout", "ok">>
    /\ lastOutcome.ok
    /\ Len(lastOutcome.data) = 1
    /\ Len(waits) = 1

\* C5: in the retry loop a failure of a non-retryable business class
\* (transcripts disabled, no transcript found, no transcript available,
\* video unavailable) raised on attempt k is propagated at attempt k, with
\* no further provider call and no backoff wait.
C5_BusinessFailurePropagates ==
    op = "get_transcript_with_retry"
    => \A i \in 1..Len(calls) :
          calls[i] \in BusinessTypes
          => /\ i = Len(calls)
             /\ pc = "done"
             /\ result = [kind |-> "raise", exc |-> lastOutcome.exc]
             /\ Len(waits) = i - 1

\* C6: for every failure the provider can raise, both transcript routes end
\* with a structured ErrorResponse JSON body whose error_code is in the
\* closed taxonomy; no exception escapes a route handler.
ErrorCodes ==
    {"TRANSCRIPTS_DISABLED", "NO_TRANSCRIPT_FOUND", "NO_TRANSCRIPT_AVAILABLE",
     "VIDEO_UNAVAILABLE", "VIDEO_REGION_BLOCKED", "RATE_LIMIT_EXCEEDED",
     "YOUTUBE_API_ERROR", "NETWORK_ERROR", "TRANSIENT_ERROR", "INTERNAL_ERROR"}

C6_AlwaysStructuredError ==
    (RouteFailed("get_transcript") \/ RouteFailed("list_transcripts"))
    => /\ result.kind = "json"
       /\ \E code \in ErrorCodes : Body("error_code") = <<code>>
       /\ Body("video_id") = <<video_id>>

\* C7: for every provider failure, GET /transcript/list/{video_id} answers
\* with the status, error_code, is_retryable and retry_after that GET
\* /transcript/{video_id} answers for the same failure.
Mapping(r) ==
    IF r.kind = "json"
    THEN [status |-> r.status,
          error_code |-> r.body.error_code,
          is_retryable |-> IF "is_retryable" \in DOMAIN r.body
                           THEN <<r.body.is_retryable>> ELSE <<>>,
          retry_after |-> IF "retry_after" \in DOMAIN r.body
                          THEN <<r.body.retry_after>> ELSE <<>>]
    ELSE [status |-> r.status, error_code |-> "", is_retryable |-> <<>>,
          retry_after |-> <<>>]

C7_ListMapsLikeGet ==
    RouteFailed("list_transcripts")
    => /\ result.kind = "json"
       /\ Mapping(result) = Mapping(get_transcript_except(lastOutcome.exc, video_id))

\* C8: GET /transcript/{video_id} classifies first-match-wins in the table
\* order: the response carries the error_code, status, is_retryable and
\* retry_after of the first row of the table the failure matches.
MessageHas(e, indicators) ==
    \E i \in 1..Len(e.msg) : LowerWord(e.msg[i]) \in indicators

Row(code, status, retryable, after) ==
    [status |-> status, error_code |-> code, is_retryable |-> <<retryable>>,
     retry_after |-> after]

TableRow(e) ==
    CASE e.type = "TranscriptsDisabled" -> Row("TRANSCRIPTS_DISABLED", 404, FALSE, <<>>)
      [] e.type = "NoTranscriptFound" -> Row("NO_TRANSCRIPT_FOUND", 404, FALSE, <<>>)
      [] e.type = "NoTranscriptAvailable" -> Row("NO_TRANSCRIPT_AVAILABLE", 404, FALSE, <<>>)
      [] e.type = "VideoUnavailable" -> Row("VIDEO_UNAVAILABLE", 404, FALSE, <<>>)
      [] e.type = "YouTubeRequestFailed" /\ MessageHas(e, rate_limit_indicators)
            -> Row("RATE_LIMIT_EXCEEDED", 429, FALSE, <<60>>)
      [] e.type = "YouTubeRequestFailed" /\ ~MessageHas(e, rate_limit_indicators)
            -> Row("YOUTUBE_API_ERROR", 503, TRUE, <<30>>)
      [] e.type \in {"Timeout", "ConnectionError"} -> Row("NETWORK_ERROR", 503, TRUE, <<15>>)
      [] e.type \in {"TooManyRequests", "Exception"} /\ MessageHas(e, transient_indicators)
            -> Row("TRANSIENT_ERROR", 503, TRUE, <<30>>)
      [] OTHER -> Row("INTERNAL_ERROR", 500, TRUE, <<>>)

C8_FirstMatchWins ==
    RouteFailed("get_transcript")
    => /\ result.kind = "json"
       /\ Mapping(result) = TableRow(lastOutcome.exc)

C8_Witness ==
    /\ RouteFailed("get_transcript")
    /\ lastOutcome.exc = Exc("YouTubeRequestFailed", <<"timeout", "RATE LIMIT">>)
    /\ result.status = 429
    /\ Body("error_code") = <<"RATE_LIMIT_EXCEEDED">>

\* C9: when the provider returns a sequence of segments, GET
\* /transcript/{video_id} answers 200 with the request's video_id, transcript
\* equal to that sequence in the same order, and segment_count its length.
C9_TranscriptRoundTrip ==
    (Done("get_transcript") /\ lastOutcome.ok)
    => /\ result.kind = "json"
       /\ result.status = 200
       /\ DOMAIN result.body = {"video_id", "transcript", "segment_count"}
       /\ result.body.video_id = video_id
       /\ Len(result.body.transcript) = Len(lastOutcome.data)
       /\ \A i \in 1..Len(lastOutcome.data) :
             result.body.transcript[i] = lastOutcome.data[i]
       /\ result.body.segment_count = Len(lastOutcome.data)

C9_Witness ==
    /\ Done("get_transcript")
    /\ video_id = "v1"
    /\ lastOutcome.ok
    /\ lastOutcome.data = << [text |-> "a", start |-> 0, duration |-> 1],
                            [text |-> "b", start |-> 1, duration |-> 1],
                            [text |-> "c", start |-> 2, duration |-> 1] >>
    /\ result.body.segment_count = 3

\* C10: the languages list passed to the provider is the languages query
\* parameter split on commas with order preserved, is ["en"] when the
\* parameter is absent, and is always a non-empty sequence.
RECURSIVE Join(_)
Join(parts) ==
    IF Len(parts) = 1 THEN parts[1]
    ELSE parts[1] \o <<",">> \o Join(Tail(parts))

C10_LanguagesParsing ==
    (Done("get_transcript") /\ passed # <<>>)
    => LET languages == passed[1]
       IN  /\ Len(languages) >= 1
           /\ \A i \in 1..Len(languages) : ~HasComma(languages[i])
           /\ languages_param = <<>> => languages = << <<"en">> >>
           /\ languages_param # <<>> => Join(languages) = languages_param[1]
           /\ languages_param = << <<"en", ",", "fr">> >>
              => languages = << <<"en">>, <<"fr">> >>

C10_Witness ==
    /\ Done("get_transcript")
    /\ languages_param = << <<"en", ",", "fr">> >>
    /\ passed = << << <<"en">>, <<"fr">> >> >>
    /\ lastOutcome.ok

\* C11: the fetch retry loop always terminates: for max_retries >= 1 it
\* makes at most max_retries provider calls and at most max_retries - 1
\* backoff waits, each wait has a base of at most 2^max_retries seconds, and
\* when every attempt fails the error raised is that of the last attempt.
C11_Bounded ==
    (op = "get_transcript_with_retry" /\ max_retries >= 1)
    => /\ Len(calls) <= max_retries
       /\ Len(waits) <= max_retries - 1
       /\ Len(waits) <= Len(calls)
       /\ \A i \in 1..Len(waits) :
             \E jitter \in 0..JitterSteps :
                /\ waits[i] - jitter >= 0
                /\ waits[i] - jitter <= Pow2(max_retries) * JitterSteps
       /\ (pc = "done" /\ \A i \in 1..Len(calls) : calls[i] # "ok")
          => /\ Len(calls) >= 1
             /\ result = [kind |-> "raise", exc |-> lastOutcome.exc]
             /\ result.exc.type = calls[Len(calls)]

C11_RetryLoopTerminates ==
    /\ []C11_Bounded
    /\ (pc = "retrying") ~> (pc = "done")

C11_Witness ==
    /\ Done("get_transcript_with_retry")
    /\ max_retries = DefaultMaxRetries
    /\ calls = <<"Timeout", "Exception", "YouTubeRequestFailed">>
    /\ Len(waits) = 2
    /\ result.kind = "raise"
    /\ result.exc.type = "YouTubeRequestFailed"

\* C12: for every max_retries (0 and negative values included) and every
\* sequence of provider outcomes, get_transcript_with_retry either returns
\* the transcript of a successful provider call or raises; it never returns
\* without a transcript.
C12_ReturnsTranscriptOrRaises ==
    Done("get_transcript_with_retry")
    => \/ /\ result.kind = "return"
          /\ lastOutcome.ok
          /\ result.value = <<lastOutcome.data>>
       \/ result.kind = "raise"

====
